---- MODULE Spec2Model ----
(***************************************************************************)
(* RedisManager (src/index.js, and its earlier copy src/unnamed/part_000): *)
(* a thin adapter over a Redis connection.  The model keeps the Redis      *)
(* keyspace the adapter talks to (hash tables, flat string entries, their  *)
(* expiry deadlines, a clock), the JSON encoding the adapter applies on    *)
(* the way in and out, and one action per adapter method.  Methods that    *)
(* await more than one Redis command are split at their awaits.            *)
(*                                                                         *)
(* Texts (key names, field names, JSON payloads) are sequences of          *)
(* one-character strings, so that concatenation, prefix matching, prefix   *)
(* removal and JSON parsing are computed character by character.           *)
(*                                                                         *)
(* Hash tables and flat entries are kept in two maps: table names of the   *)
(* model contain no separator, so a hash name never equals a composite     *)
(* name (spec.md section 3 leaves name collisions to the caller).          *)
(***************************************************************************)
EXTENDS Integers, Sequences, FiniteSets, TLC

VARIABLES tables, entries, now, wx, sc, last, hist

vars == <<tables, entries, now, wx, sc, last, hist>>

(***************************************************************************)
(* Bounds of the model.                                                    *)
(***************************************************************************)
MaxTime == 2
MaxTTL == 1
MaxBatch == 2

(***************************************************************************)
(* JavaScript values.  Every value has the same record shape so that any   *)
(* two values can be compared.  An object is the sequence of its           *)
(* <<property name, value>> pairs in insertion order.                      *)
(***************************************************************************)
JSValue(t, n, b, s, o) == [t |-> t, n |-> n, b |-> b, s |-> s, o |-> o]

Undefined == JSValue("undefined", 0, FALSE, <<>>, <<>>)

Null == JSValue("null", 0, FALSE, <<>>, <<>>)

Num(n) == JSValue("number", n, FALSE, <<>>, <<>>)

Bool(b) == JSValue("boolean", 0, b, <<>>, <<>>)

Str(s) == JSValue("string", 0, FALSE, s, <<>>)

Obj(o) == JSValue("object", 0, FALSE, <<>>, o)

(* typeof value === "object": true of objects and of null *)
TypeofObject(v) == v.t \in {"object", "null"}

(* Property lookup, assignment (obj[name] = v) and removal on an object's pairs *)
HasProp(o, name) == \E i \in 1..Len(o) : o[i][1] = name

GetProp(o, name) == o[CHOOSE i \in 1..Len(o) : o[i][1] = name][2]

SetProp(o, name, v) ==
    IF HasProp(o, name)
    THEN [i \in 1..Len(o) |-> IF o[i][1] = name THEN <<name, v>> ELSE o[i]]
    ELSE Append(o, <<name, v>>)

PropNames(o) == {o[i][1] : i \in 1..Len(o)}

(* Deep equality of two JavaScript values: property order does not count *)
RECURSIVE DeepEqual(_, _)
DeepEqual(v, w) ==
    IF v.t = "object" /\ w.t = "object"
    THEN /\ PropNames(v.o) = PropNames(w.o)
         /\ Len(v.o) = Len(w.o)
         /\ \A name \in PropNames(v.o) : DeepEqual(GetProp(v.o, name), GetProp(w.o, name))
    ELSE v = w

(***************************************************************************)
(* JSON.stringify and JSON.parse on the subset: null, true, false,         *)
(* non-negative integers, strings without escapes, objects.                *)
(***************************************************************************)
DigitChars == <<"0", "1", "2", "3", "4", "5", "6", "7", "8", "9">>

IsDigit(c) == \E d \in 1..10 : DigitChars[d] = c

DigitVal(c) == (CHOOSE d \in 1..10 : DigitChars[d] = c) - 1

RECURSIVE Digits(_)
Digits(n) == IF n < 10 THEN <<DigitChars[n + 1]>>
             ELSE Digits(n \div 10) \o <<DigitChars[(n % 10) + 1]>>

Quote(s) == <<"\"">> \o s \o <<"\"">>

RECURSIVE JSONstringify(_), StringifyMembers(_)
StringifyMembers(o) ==
    IF o = <<>> THEN <<>>
    ELSE Quote(o[1][1]) \o <<":">> \o JSONstringify(o[1][2])
         \o (IF Len(o) > 1 THEN <<",">> \o StringifyMembers(Tail(o)) ELSE <<>>)

JSONstringify(v) ==
    CASE v.t = "null" -> <<"n", "u", "l", "l">>
      [] v.t = "boolean" -> IF v.b THEN <<"t", "r", "u", "e">>
                            ELSE <<"f", "a", "l", "s", "e">>
      [] v.t = "number" -> Digits(v.n)
      [] v.t = "string" -> Quote(v.s)
      [] v.t = "object" -> <<"{">> \o StringifyMembers(v.o) \o <<"}">>

StartsWith(s, p) == Len(s) >= Len(p) /\ SubSeq(s, 1, Len(p)) = p

Drop(s, k) == SubSeq(s, k + 1, Len(s))

Parsed(v, rest) == [ok |-> TRUE, val |-> v, rest |-> rest]

SyntaxError == [ok |-> FALSE, val |-> Undefined, rest |-> <<>>]

(* number of leading digits of s *)
RECURSIVE LeadingDigits(_)
LeadingDigits(s) ==
    IF s /= <<>> /\ IsDigit(Head(s)) THEN 1 + LeadingDigits(Tail(s)) ELSE 0

RECURSIVE ToNumber(_)
ToNumber(ds) ==
    IF ds = <<>> THEN 0
    ELSE 10 * ToNumber(SubSeq(ds, 1, Len(ds) - 1)) + DigitVal(ds[Len(ds)])

ParseNumber(s) ==
    IF Head(s) = "0" THEN Parsed(Num(0), Tail(s))
    ELSE Parsed(Num(ToNumber(SubSeq(s, 1, LeadingDigits(s)))), Drop(s, LeadingDigits(s)))

(* s starts with a double quote: the string runs to the next one *)
ParseString(s) ==
    IF \E i \in 2..Len(s) : s[i] = "\""
    THEN LET close == CHOOSE i \in 2..Len(s) :
                         s[i] = "\"" /\ \A j \in 2..(i - 1) : s[j] /= "\""
         IN Parsed(Str(SubSeq(s, 2, close - 1)), Drop(s, close))
    ELSE SyntaxError

RECURSIVE ParseValue(_), ParseMembers(_, _)
ParseMembers(s, acc) ==
    IF s = <<>> \/ Head(s) /= "\"" THEN SyntaxError
    ELSE LET name == ParseString(s)
         IN IF ~name.ok \/ name.rest = <<>> \/ Head(name.rest) /= ":" THEN SyntaxError
            ELSE LET member == ParseValue(Tail(name.rest))
                 IN IF ~member.ok \/ member.rest = <<>> THEN SyntaxError
                    ELSE LET acc2 == SetProp(acc, name.val.s, member.val)
                         IN CASE Head(member.rest) = "}" -> Parsed(Obj(acc2), Tail(member.rest))
                              [] Head(member.rest) = "," -> ParseMembers(Tail(member.rest), acc2)
                              [] OTHER -> SyntaxError

ParseValue(s) ==
    CASE s = <<>> -> SyntaxError
      [] StartsWith(s, <<"n", "u", "l", "l">>) -> Parsed(Null, Drop(s, 4))
      [] StartsWith(s, <<"t", "r", "u", "e">>) -> Parsed(Bool(TRUE), Drop(s, 4))
      [] StartsWith(s, <<"f", "a", "l", "s", "e">>) -> Parsed(Bool(FALSE), Drop(s, 5))
      [] s /= <<>> /\ IsDigit(Head(s)) -> ParseNumber(s)
      [] s /= <<>> /\ Head(s) = "\"" -> ParseString(s)
      [] StartsWith(s, <<"{", "}">>) -> Parsed(Obj(<<>>), Drop(s, 2))
      [] s /= <<>> /\ Head(s) = "{" -> ParseMembers(Tail(s), <<>>)
      [] OTHER -> SyntaxError

(* JSON.parse: the whole text must be one value, otherwise it throws *)
JSONparse(text) ==
    LET r == ParseValue(text)
    IN IF r.ok /\ r.rest = <<>> THEN r ELSE SyntaxError

(***************************************************************************)
(* The Redis commands the adapter issues, as functions of the keyspace.    *)
(* tables[t]  = [fields |-> field name -> text, exp |-> deadline or 0]     *)
(* entries[n] = [val |-> text, exp |-> deadline or 0]                      *)
(* A key with a deadline d is gone from time d on (see Tick).              *)
(***************************************************************************)
Nil == [nil |-> TRUE, s |-> <<>>]

Bulk(text) == [nil |-> FALSE, s |-> text]

Without(m, name) == [x \in (DOMAIN m) \ {name} |-> m[x]]

(* HSET table field text: creates the hash when absent, keeps its deadline *)
HSET(tb, t, f, text) ==
    IF t \in DOMAIN tb
    THEN [tb EXCEPT ![t].fields = (f :> text) @@ @]
    ELSE (t :> [fields |-> (f :> text), exp |-> 0]) @@ tb

HGET(tb, t, f) ==
    IF t \in DOMAIN tb /\ f \in DOMAIN tb[t].fields THEN Bulk(tb[t].fields[f]) ELSE Nil

(* HGETALL: the reply as an object of field -> text pairs; {} when absent *)
RECURSIVE Pairs(_)
Pairs(h) ==
    IF DOMAIN h = {} THEN <<>>
    ELSE LET f == CHOOSE x \in DOMAIN h : TRUE
         IN <<<<f, h[f]>>>> \o Pairs(Without(h, f))

HGETALL(tb, t) == IF t \in DOMAIN tb THEN Pairs(tb[t].fields) ELSE <<>>

(* HDEL table field: the count removed; a hash left empty is removed *)
HDELcount(tb, t, f) == IF t \in DOMAIN tb /\ f \in DOMAIN tb[t].fields THEN 1 ELSE 0

HDEL(tb, t, f) ==
    IF HDELcount(tb, t, f) = 0 THEN tb
    ELSE IF DOMAIN tb[t].fields = {f} THEN Without(tb, t)
    ELSE [tb EXCEPT ![t].fields = Without(@, f)]

(* DEL key *)
DELcount(m, name) == IF name \in DOMAIN m THEN 1 ELSE 0

DEL(m, name) == Without(m, name)

(* EXPIRE key seconds: only an existing key gets a deadline *)
EXPIRE(m, name, ttl, time) ==
    IF name \notin DOMAIN m THEN m
    ELSE IF ttl <= 0 THEN Without(m, name)
    ELSE [m EXCEPT ![name].exp = time + ttl]

(* PERSIST key *)
PERSIST(m, name) == IF name \in DOMAIN m THEN [m EXCEPT ![name].exp = 0] ELSE m

(* SET key text [EX seconds]: replaces the value and the deadline *)
SET(m, name, text, exp) == (name :> [val |-> text, exp |-> exp]) @@ m

GET(m, name) == IF name \in DOMAIN m THEN Bulk(m[name].val) ELSE Nil

(* keys still alive at the given time *)
Alive(m, time) == [x \in {y \in DOMAIN m : m[y].exp = 0 \/ m[y].exp > time} |-> m[x]]

(***************************************************************************)
(* Outcome of an adapter call: a returned value or a thrown error.         *)
(***************************************************************************)
Return(v) == [err |-> "", ret |-> v]

Throw(e) == [err |-> e, ret |-> Undefined]

Call(op, table, key, data, ttl, out) ==
    [op |-> op, table |-> table, key |-> key, data |-> data, ttl |-> ttl,
     err |-> out.err, ret |-> out.ret]

(* as if the decoded value were tested instead of the reply text *)
Truthy_decoded(data) ==
    /\ ~data.nil
    /\ data.s /= <<>>
    /\ JSONparse(data.s).val \notin {Num(0), Bool(FALSE), Str(<<>>), Null}

(* `data ? ... : ...` on a reply: null and the empty string are falsy *)
Truthy(data) == ~data.nil /\ data.s /= <<>>

(* `${table}-${key}` *)
compositeKey(table, key) == table \o <<"-">> \o key

(* `${table}:${key}` of getByTableAndKeyPattern *)
colonKey(table, key) == table \o <<":">> \o key

(* typeof value === "object" ? JSON.stringify(value) : value, as sent to SET *)
compositeData(value) ==
    IF TypeofObject(value) THEN JSONstringify(value)
    ELSE CASE value.t = "string" -> value.s
           [] value.t = "number" -> Digits(value.n)
           [] value.t = "boolean" -> IF value.b THEN <<"t", "r", "u", "e">>
                                     ELSE <<"f", "a", "l", "s", "e">>

(* data ? JSON.parse(data) : null *)
parseOrNull(data) ==
    IF Truthy(data)
    THEN LET r == JSONparse(data.s) IN IF r.ok THEN Return(r.val) ELSE Throw("SyntaxError")
    ELSE Return(Null)

(* the readers take the keyspace they read as their first argument *)
getByTableAndKey(tb, table, key) == parseOrNull(HGET(tb, table, key))

getByTableAndKeyPattern(en, table, key) == parseOrNull(GET(en, colonKey(table, key)))

(* as if the loop kept the first value decoded for a field *)
RECURSIVE parseAll_keepFirst(_, _)
parseAll_keepFirst(rawData, parsedData) ==
    IF rawData = <<>> THEN Return(Obj(parsedData))
    ELSE LET r == JSONparse(rawData[1][2])
         IN IF r.ok
            THEN parseAll_keepFirst(Tail(rawData),
                                    IF parsedData = <<>>
                                    THEN SetProp(parsedData, rawData[1][1], r.val)
                                    ELSE parsedData)
            ELSE Throw("SyntaxError")

(* for (const [key, value] of Object.entries(rawData)) parsedData[key] = JSON.parse(value) *)
RECURSIVE parseAll(_, _)
parseAll(rawData, parsedData) ==
    IF rawData = <<>> THEN Return(Obj(parsedData))
    ELSE LET r == JSONparse(rawData[1][2])
         IN IF r.ok THEN parseAll(Tail(rawData), SetProp(parsedData, rawData[1][1], r.val))
            ELSE Throw("SyntaxError")

getAllFromTable(tb, table) == parseAll(HGETALL(tb, table), <<>>)

(***************************************************************************)
(* Inputs of the model.                                                    *)
(***************************************************************************)
Tables == {<<"u">>, <<"o">>}

Keys == {<<"k">>, <<"j">>}

John == Obj(<< <<<<"n">>, Str(<<"J">>)>>, <<<<"a">>, Num(30)>> >>)

(* JSON-serializable values, the falsy ones included *)
Values == {Num(0), Bool(FALSE), Str(<<>>), Null, John, Str(<<"h", "i">>)}

TTLs == 1..MaxTTL

(***************************************************************************)
(* State.                                                                  *)
(*   wx   the addOrUpdateTableWithTableExpiry call in flight, if any       *)
(*   sc   the getAllMatchingDataByPattern call in flight, if any           *)
(*   last the adapter call that completed last, with its outcome           *)
(*   hist what the calls made so far promise about each table (history)    *)
(***************************************************************************)
WxIdle == [pc |-> "idle", table |-> <<>>, key |-> <<>>, data |-> Undefined,
           jsonData |-> <<>>, ttl |-> 0]

ScIdle == [pc |-> "idle", table |-> <<>>, pattern |-> <<>>, cursor |-> <<"0">>,
           keys |-> <<>>, result |-> <<>>]

HistInit == [deadline |-> [t \in Tables |-> 0],
             intact |-> [t \in Tables |-> FALSE],
             cleared |-> [t \in Tables |-> 0],
             clearedFields |-> [t \in Tables |-> {}],
             quiet |-> FALSE,
             expBefore |-> 0,
             seen |-> FALSE,
             written |-> <<>>,
             scanArg |-> <<>>,
             scanRet |-> <<>>,
             missed |-> {}]

Init ==
    /\ tables = <<>>
    /\ entries = <<>>
    /\ now = 0
    /\ wx = WxIdle
    /\ sc = ScIdle
    /\ last = Call("constructor", <<>>, <<>>, Undefined, 0, Return(Undefined))
    /\ hist = HistInit

(* a change to table t while the write-then-expire call on t is between its two commands *)
Disturb(h, t) == IF wx.pc = "expire" /\ wx.table = t THEN [h EXCEPT !.quiet = FALSE] ELSE h

(* table t was removed by a delete: earlier promises about it end *)
Removed(h, t) == [h EXCEPT !.intact[t] = FALSE, !.cleared[t] = 0, !.clearedFields[t] = {}]

(* an EXPIRE ttl was issued on table t: it sets a deadline if t exists *)
Expiring(h, t, ttl) ==
    IF t \in DOMAIN tables
    THEN [h EXCEPT !.deadline[t] = now + ttl, !.intact[t] = TRUE,
                   !.cleared[t] = 0, !.clearedFields[t] = {}]
    ELSE [h EXCEPT !.deadline[t] = 0, !.intact[t] = FALSE]

(* a PERSIST was issued on table t *)
Persisted(h, t) ==
    IF t \in DOMAIN tables /\ tables[t].exp > 0
    THEN [h EXCEPT !.deadline[t] = 0, !.cleared[t] = tables[t].exp,
                   !.clearedFields[t] = DOMAIN tables[t].fields]
    ELSE [h EXCEPT !.deadline[t] = 0]

(***************************************************************************)
(* Hash-table methods.                                                     *)
(***************************************************************************)
(* as if the no-expiry writer also cleared the table's deadline *)
addOrUpdateTableWithNoTableExpiry_persist(table, key, data) ==
    /\ tables' = PERSIST(HSET(tables, table, key, JSONstringify(data)), table)
    /\ last' = Call("addOrUpdateTableWithNoTableExpiry", table, key, data, 0, Return(Undefined))
    /\ hist' = Disturb(hist, table)
    /\ UNCHANGED <<entries, now, wx, sc>>

addOrUpdateTableWithNoTableExpiry(table, key, data) ==
    /\ tables' = HSET(tables, table, key, JSONstringify(data))
    /\ last' = Call("addOrUpdateTableWithNoTableExpiry", table, key, data, 0, Return(Undefined))
    /\ hist' = Disturb(hist, table)
    /\ UNCHANGED <<entries, now, wx, sc>>

(* as if HSET and EXPIRE were sent as one transaction *)
addOrUpdateTableWithTableExpiry_hset_atomic(table, key, data, ttl) ==
    /\ wx.pc = "idle"
    /\ tables' = EXPIRE(HSET(tables, table, key, JSONstringify(data)), table, ttl, now)
    /\ wx' = [pc |-> "expire", table |-> table, key |-> key, data |-> data,
              jsonData |-> JSONstringify(data), ttl |-> ttl]
    /\ hist' = [hist EXCEPT !.quiet = TRUE, !.seen = FALSE,
                            !.expBefore = IF table \in DOMAIN tables
                                          THEN tables[table].exp ELSE 0]
    /\ UNCHANGED <<entries, now, sc, last>>

(* addOrUpdateTableWithTableExpiry up to its second await: HSET is done *)
addOrUpdateTableWithTableExpiry_hset(table, key, data, ttl) ==
    /\ wx.pc = "idle"
    /\ tables' = HSET(tables, table, key, JSONstringify(data))
    /\ wx' = [pc |-> "expire", table |-> table, key |-> key, data |-> data,
              jsonData |-> JSONstringify(data), ttl |-> ttl]
    /\ hist' = [hist EXCEPT !.quiet = TRUE, !.seen = FALSE,
                            !.expBefore = IF table \in DOMAIN tables
                                          THEN tables[table].exp ELSE 0]
    /\ UNCHANGED <<entries, now, sc, last>>

(* as if the second command were never sent *)
addOrUpdateTableWithTableExpiry_expire_skipped ==
    /\ wx.pc = "expire"
    /\ wx' = WxIdle
    /\ last' = Call("addOrUpdateTableWithTableExpiry", wx.table, wx.key, wx.data, wx.ttl,
                    Return(Undefined))
    /\ hist' = Expiring(hist, wx.table, wx.ttl)
    /\ UNCHANGED <<tables, entries, now, sc>>

(* ... its second command: EXPIRE *)
addOrUpdateTableWithTableExpiry_expire ==
    /\ wx.pc = "expire"
    /\ tables' = EXPIRE(tables, wx.table, wx.ttl, now)
    /\ wx' = WxIdle
    /\ last' = Call("addOrUpdateTableWithTableExpiry", wx.table, wx.key, wx.data, wx.ttl,
                    Return(Undefined))
    /\ hist' = Expiring(hist, wx.table, wx.ttl)
    /\ UNCHANGED <<entries, now, sc>>

(* ... or the EXPIRE is rejected: the error reaches the caller, nothing is undone *)
addOrUpdateTableWithTableExpiry_fail ==
    /\ wx.pc = "expire"
    /\ wx' = WxIdle
    /\ last' = Call("addOrUpdateTableWithTableExpiry", wx.table, wx.key, wx.data, wx.ttl,
                    Throw("ConnectionError"))
    /\ UNCHANGED <<tables, entries, now, sc, hist>>

getByTableAndKey_call(table, key) ==
    /\ last' = Call("getByTableAndKey", table, key, Undefined, 0,
                    getByTableAndKey(tables, table, key))
    /\ hist' = IF /\ wx.pc = "expire" /\ wx.table = table /\ wx.key = key
                  /\ table \in DOMAIN tables /\ tables[table].exp = 0
                  /\ HGET(tables, table, key) = Bulk(wx.jsonData)
               THEN [hist EXCEPT !.seen = TRUE] ELSE hist
    /\ UNCHANGED <<tables, entries, now, wx, sc>>

getAllFromTable_call(table) ==
    /\ last' = Call("getAllFromTable", table, <<>>, Undefined, 0, getAllFromTable(tables, table))
    /\ UNCHANGED <<tables, entries, now, wx, sc, hist>>

(* as if the count of HDEL were not returned *)
deleteDataByTableAndKey_noReturn(table, key) ==
    /\ tables' = HDEL(tables, table, key)
    /\ last' = Call("deleteDataByTableAndKey", table, key, Undefined, 0, Return(Undefined))
    /\ hist' = hist
    /\ UNCHANGED <<entries, now, wx, sc>>

deleteDataByTableAndKey(table, key) ==
    /\ tables' = HDEL(tables, table, key)
    /\ last' = Call("deleteDataByTableAndKey", table, key, Undefined, 0,
                    Return(Num(HDELcount(tables, table, key))))
    /\ hist' = IF HDELcount(tables, table, key) = 0 THEN hist
               ELSE IF table \in DOMAIN HDEL(tables, table, key)
                    THEN Disturb([hist EXCEPT !.clearedFields[table] = @ \ {key}], table)
                    ELSE Disturb(Removed(hist, table), table)
    /\ UNCHANGED <<entries, now, wx, sc>>

deleteAllFromTable(table) ==
    /\ tables' = DEL(tables, table)
    /\ last' = Call("deleteAllFromTable", table, <<>>, Undefined, 0, Return(Undefined))
    /\ hist' = IF DELcount(tables, table) = 0 THEN hist
               ELSE Disturb(Removed(hist, table), table)
    /\ UNCHANGED <<entries, now, wx, sc>>

setTableExpiry(table, ttl) ==
    /\ tables' = EXPIRE(tables, table, ttl, now)
    /\ last' = Call("setTableExpiry", table, <<>>, Undefined, ttl, Return(Undefined))
    /\ hist' = Disturb(Expiring(hist, table, ttl), table)
    /\ UNCHANGED <<entries, now, wx, sc>>

(* as if PERSIST were not applied to the table *)
removeTableExpiry_skipped(table) ==
    /\ last' = Call("removeTableExpiry", table, <<>>, Undefined, 0, Return(Undefined))
    /\ hist' = Disturb(Persisted(hist, table), table)
    /\ UNCHANGED <<tables, entries, now, wx, sc>>

removeTableExpiry(table) ==
    /\ tables' = PERSIST(tables, table)
    /\ last' = Call("removeTableExpiry", table, <<>>, Undefined, 0, Return(Undefined))
    /\ hist' = Disturb(Persisted(hist, table), table)
    /\ UNCHANGED <<entries, now, wx, sc>>

(* the value a composite writer was given for the entry it wrote *)
Wrote(h, name, value) == [h EXCEPT !.written = (name :> value) @@ @]

(***************************************************************************)
(* Composite-key methods.                                                  *)
(***************************************************************************)
addOrUpdateCompositeKeyPatternWithExpiry(table, key, value, ttl) ==
    /\ entries' = SET(entries, compositeKey(table, key), compositeData(value), now + ttl)
    /\ last' = Call("addOrUpdateCompositeKeyPatternWithExpiry", table, key, value, ttl,
                    Return(Undefined))
    /\ hist' = Wrote(hist, compositeKey(table, key), value)
    /\ UNCHANGED <<tables, now, wx, sc>>

addOrUpdateCompositeKeyPatternNoExpiry(table, key, value) ==
    /\ entries' = SET(entries, compositeKey(table, key), compositeData(value), 0)
    /\ last' = Call("addOrUpdateCompositeKeyPatternNoExpiry", table, key, value, 0,
                    Return(Undefined))
    /\ hist' = Wrote(hist, compositeKey(table, key), value)
    /\ UNCHANGED <<tables, now, wx, sc>>

getByTableAndKeyPattern_call(table, key) ==
    /\ last' = Call("getByTableAndKeyPattern", table, key, Undefined, 0,
                    getByTableAndKeyPattern(entries, table, key))
    /\ UNCHANGED <<tables, entries, now, wx, sc, hist>>

deleteCompositeKeyByTableKeyPattern(table, key) ==
    /\ entries' = DEL(entries, compositeKey(table, key))
    /\ last' = Call("deleteCompositeKeyByTableKeyPattern", table, key, Undefined, 0,
                    Return(Num(DELcount(entries, compositeKey(table, key)))))
    /\ hist' = [hist EXCEPT !.written = Without(@, compositeKey(table, key))]
    /\ UNCHANGED <<tables, now, wx, sc>>

(***************************************************************************)
(* Time: one second passes; keys whose deadline is reached are gone.       *)
(***************************************************************************)
Tick ==
    /\ now < MaxTime
    /\ now' = now + 1
    /\ tables' = Alive(tables, now + 1)
    /\ entries' = Alive(entries, now + 1)
    /\ hist' = [hist EXCEPT
                  !.quiet = @ /\ ~(wx.pc = "expire" /\ wx.table \in DOMAIN tables
                                   /\ wx.table \notin DOMAIN Alive(tables, now + 1)),
                  !.written = [x \in (DOMAIN @) \cap DOMAIN Alive(entries, now + 1) |-> @[x]]]
    /\ UNCHANGED <<wx, sc, last>>

(***************************************************************************)
(* getAllMatchingDataByPattern: the SCAN loop.                             *)
(*                                                                         *)
(* The store side of SCAN: the keyspace is a fixed row of slots, one per   *)
(* name, and the cursor is the number of slots already visited ("0" when   *)
(* the row is finished).  One SCAN visits between 1 and MaxBatch further   *)
(* slots (COUNT is a hint), may visit the last slot again (a key can be    *)
(* reported twice), and reports the names alive in those slots that match  *)
(* the pattern.                                                            *)
(***************************************************************************)
ScanTables == {<<"u">>, <<"o">>}

(* the <<table, key>> pairs the composite writers are called with *)
ScanPairs == {<<<<"u">>, <<"k">>>>, <<<<"o">>, <<"k">>>>, <<<<"u">>, <<"k", "2">>>>}

Patterns == {<<>>, <<"k", "2">>}

Slots == << <<"u", "-", "k">>, <<"o", "-", "k">>, <<"u", "-", "k", "2">> >>

(* glob matching with literal characters and * *)
RECURSIVE GlobMatch(_, _)
GlobMatch(pat, name) ==
    IF pat = <<>> THEN name = <<>>
    ELSE IF Head(pat) = "*"
         THEN GlobMatch(Tail(pat), name) \/ (name /= <<>> /\ GlobMatch(pat, Tail(name)))
         ELSE name /= <<>> /\ Head(name) = Head(pat) /\ GlobMatch(Tail(pat), Tail(name))

(* the names alive in slots from..to that match, in slot order *)
RECURSIVE Reported(_, _, _, _)
Reported(m, pat, from, to) ==
    IF from > to THEN <<>>
    ELSE (IF Slots[from] \in DOMAIN m /\ GlobMatch(pat, Slots[from])
          THEN <<Slots[from]>> ELSE <<>>) \o Reported(m, pat, from + 1, to)

(* the replies SCAN cursor MATCH pat may give: [nextCursor, keys] *)
SCAN(m, cursor, pat) ==
    LET done == ToNumber(cursor)
    IN {[nextCursor |-> IF to = Len(Slots) THEN <<"0">> ELSE Digits(to),
         keys |-> Reported(m, pat, from, to)] :
            from \in {f \in {done, done + 1} : f >= 1},
            to \in {e \in (done + 1)..Len(Slots) : e <= done + MaxBatch}}

(* `${table}-${pattern}*` *)
matchPattern(table, pattern) == table \o <<"-">> \o pattern \o <<"*">>

(* String.prototype.replace(pat, by) with a string pattern: the first occurrence only *)
Replace(s, pat, by) ==
    IF \E i \in 1..(Len(s) - Len(pat) + 1) : SubSeq(s, i, i + Len(pat) - 1) = pat
    THEN LET at == CHOOSE i \in 1..(Len(s) - Len(pat) + 1) :
                      /\ SubSeq(s, i, i + Len(pat) - 1) = pat
                      /\ \A j \in 1..(i - 1) : SubSeq(s, j, j + Len(pat) - 1) /= pat
         IN SubSeq(s, 1, at - 1) \o by \o Drop(s, at + Len(pat) - 1)
    ELSE s

(* key.replace(`${table}-`, "") *)
resultField(table, key) == Replace(key, table \o <<"-">>, <<>>)

(* where the loop stands once the call has state c: next GET, next SCAN, or return *)
Resume(c) ==
    /\ sc' = IF c.keys /= <<>> THEN [c EXCEPT !.pc = "get"]
             ELSE IF c.cursor /= <<"0">> THEN [c EXCEPT !.pc = "scan"]
             ELSE ScIdle
    /\ last' = IF c.keys = <<>> /\ c.cursor = <<"0">>
               THEN Call("getAllMatchingDataByPattern", c.table, c.pattern, Undefined, 0,
                         Return(Obj(c.result)))
               ELSE last

getAllMatchingDataByPattern_begin(table, pattern) ==
    /\ sc.pc = "idle"
    /\ sc' = [pc |-> "scan", table |-> table, pattern |-> pattern, cursor |-> <<"0">>,
              keys |-> <<>>, result |-> <<>>]
    /\ hist' = [hist EXCEPT !.scanArg = <<>>, !.scanRet = <<>>, !.missed = {}]
    /\ UNCHANGED <<tables, entries, now, wx, last>>

(* const [nextCursor, keys] = await this.redis.scan(cursor, ...); cursor = nextCursor *)
getAllMatchingDataByPattern_scan ==
    /\ sc.pc = "scan"
    /\ \E reply \in SCAN(entries, sc.cursor, matchPattern(sc.table, sc.pattern)) :
          /\ Resume([sc EXCEPT !.cursor = reply.nextCursor, !.keys = reply.keys])
          /\ hist' = [hist EXCEPT !.scanArg = sc.cursor, !.scanRet = reply.nextCursor]
    /\ UNCHANGED <<tables, entries, now, wx>>

(* as if the reply were decoded without the `if (data)` test: JSON.parse(null) is null *)
getAllMatchingDataByPattern_get_unchecked ==
    /\ sc.pc = "get"
    /\ LET key == Head(sc.keys)
           data == GET(entries, key)
           parsed == IF data.nil THEN Parsed(Null, <<>>) ELSE JSONparse(data.s)
       IN IF ~parsed.ok
          THEN /\ sc' = ScIdle
               /\ last' = Call("getAllMatchingDataByPattern", sc.table, sc.pattern, Undefined, 0,
                               Throw("SyntaxError"))
               /\ hist' = hist
          ELSE /\ Resume([sc EXCEPT
                            !.keys = Tail(@),
                            !.result = SetProp(@, resultField(sc.table, key), parsed.val)])
               /\ hist' = IF data.nil THEN [hist EXCEPT !.missed = @ \cup {key}] ELSE hist
    /\ UNCHANGED <<tables, entries, now, wx>>

(* const data = await this.redis.get(key); if (data) result[field] = JSON.parse(data) *)
getAllMatchingDataByPattern_get ==
    /\ sc.pc = "get"
    /\ LET key == Head(sc.keys)
           data == GET(entries, key)
           parsed == JSONparse(data.s)
       IN IF Truthy(data) /\ ~parsed.ok
          THEN /\ sc' = ScIdle
               /\ last' = Call("getAllMatchingDataByPattern", sc.table, sc.pattern, Undefined, 0,
                            Throw("SyntaxError"))
               /\ hist' = hist
          ELSE /\ Resume([sc EXCEPT
                            !.keys = Tail(@),
                            !.result = IF Truthy(data)
                                       THEN SetProp(@, resultField(sc.table, key), parsed.val)
                                       ELSE @])
               /\ hist' = IF data.nil THEN [hist EXCEPT !.missed = @ \cup {key}] ELSE hist
    /\ UNCHANGED <<tables, entries, now, wx>>

(***************************************************************************)
(* Specifications.  Each one exercises a family of methods over inputs     *)
(* small enough to explore exhaustively.                                   *)
(***************************************************************************)
CrudTables == {<<"u">>}

CompositeValues == {John, Str(<<"h", "i">>)}

(* hash-table and composite-key reads, writes and deletes, no clock *)
NextCrud ==
    \/ \E t \in CrudTables, k \in Keys, v \in Values : addOrUpdateTableWithNoTableExpiry(t, k, v)
    \/ \E t \in CrudTables, k \in Keys : getByTableAndKey_call(t, k)
    \/ \E t \in CrudTables : getAllFromTable_call(t)
    \/ \E t \in CrudTables, k \in Keys : deleteDataByTableAndKey(t, k)
    \/ \E t \in CrudTables : deleteAllFromTable(t)
    \/ \E t \in CrudTables, k \in Keys, v \in CompositeValues, ttl \in TTLs :
          addOrUpdateCompositeKeyPatternWithExpiry(t, k, v, ttl)
    \/ \E t \in CrudTables, k \in Keys, v \in CompositeValues :
          addOrUpdateCompositeKeyPatternNoExpiry(t, k, v)
    \/ \E t \in CrudTables, k \in Keys : getByTableAndKeyPattern_call(t, k)
    \/ \E t \in CrudTables, k \in Keys : deleteCompositeKeyByTableKeyPattern(t, k)

SpecCrud == Init /\ [][NextCrud]_vars

TtlValues == {John, Num(0)}

(* one hash table under TTL commands, the two-command writer and the clock *)
NextTtl ==
    \/ \E k \in Keys, v \in TtlValues : addOrUpdateTableWithNoTableExpiry(<<"u">>, k, v)
    \/ \E k \in Keys, v \in TtlValues, ttl \in TTLs :
          addOrUpdateTableWithTableExpiry_hset(<<"u">>, k, v, ttl)
    \/ addOrUpdateTableWithTableExpiry_expire
    \/ addOrUpdateTableWithTableExpiry_fail
    \/ \E k \in Keys : getByTableAndKey_call(<<"u">>, k)
    \/ \E k \in Keys : deleteDataByTableAndKey(<<"u">>, k)
    \/ deleteAllFromTable(<<"u">>)
    \/ \E ttl \in TTLs : setTableExpiry(<<"u">>, ttl)
    \/ removeTableExpiry(<<"u">>)
    \/ Tick

SpecTtl == Init /\ [][NextTtl]_vars

(* the no-expiry writer among other tables, other fields and flat entries *)
NextFrame ==
    \/ \E t \in Tables, k \in Keys : addOrUpdateTableWithNoTableExpiry(t, k, John)
    \/ \E t \in Tables, ttl \in TTLs : setTableExpiry(t, ttl)
    \/ addOrUpdateCompositeKeyPatternNoExpiry(<<"u">>, <<"k">>, John)
    \/ Tick

SpecFrame == Init /\ [][NextFrame]_vars

ScanValues == {John, Obj(<<>>)}

(* the scan loop over a store that changes only between calls *)
NextScanQuiet ==
    \/ /\ sc.pc = "idle"
       /\ \/ \E tk \in ScanPairs, v \in CompositeValues :
                addOrUpdateCompositeKeyPatternNoExpiry(tk[1], tk[2], v)
          \/ \E tk \in ScanPairs, v \in CompositeValues, ttl \in TTLs :
                addOrUpdateCompositeKeyPatternWithExpiry(tk[1], tk[2], v, ttl)
    \/ \E t \in ScanTables, p \in Patterns : getAllMatchingDataByPattern_begin(t, p)
    \/ getAllMatchingDataByPattern_scan
    \/ getAllMatchingDataByPattern_get

SpecScanQuiet == Init /\ [][NextScanQuiet]_vars

(* the scan loop while other callers write and delete and entries expire *)
NextScan ==
    \/ \E tk \in ScanPairs, v \in ScanValues :
          addOrUpdateCompositeKeyPatternNoExpiry(tk[1], tk[2], v)
    \/ \E tk \in ScanPairs, ttl \in TTLs :
          addOrUpdateCompositeKeyPatternWithExpiry(tk[1], tk[2], John, ttl)
    \/ \E tk \in ScanPairs : deleteCompositeKeyByTableKeyPattern(tk[1], tk[2])
    \/ getAllMatchingDataByPattern_begin(<<"u">>, <<"k">>)
    \/ getAllMatchingDataByPattern_scan
    \/ getAllMatchingDataByPattern_get
    \/ Tick

SpecScan == Init /\ [][NextScan]_vars

(***************************************************************************)
(* Properties of the hash-table and composite-key methods (SpecCrud).      *)
(***************************************************************************)
RemoveProp(o, name) == SelectSeq(o, LAMBDA pair : pair[1] /= name)

EmptyMapping == Return(Obj(<<>>))

(* the step is the completion of a call of method op *)
Completes(op) ==
    /\ last'.op = op
    /\ now' = now
    /\ sc' = sc
    /\ wx' = wx \/ (wx.pc = "expire" /\ wx'.pc = "idle")

TableWriters == {"addOrUpdateTableWithNoTableExpiry", "deleteDataByTableAndKey",
                 "deleteAllFromTable"}

(* C1: a field written through the no-expiry writer reads back, through
   getByTableAndKey, as a value deep-equal to the one written, for every value
   of the bounded set (0, false, "" and null included), and keeps reading
   back so until a write or delete touches the table. *)
C1_RoundTrip ==
    /\ [](last.op = "addOrUpdateTableWithNoTableExpiry"
             => /\ getByTableAndKey(tables, last.table, last.key).err = ""
                /\ DeepEqual(getByTableAndKey(tables, last.table, last.key).ret, last.data))
    /\ [][\A t \in CrudTables, k \in Keys :
             ~(last'.op \in TableWriters /\ last'.table = t)
                => getByTableAndKey(tables', t, k) = getByTableAndKey(tables, t, k)]_vars

(* the empty string, written and read back *)
C1_Witness ==
    /\ last.op = "getByTableAndKey"
    /\ last.err = ""
    /\ last.ret = Str(<<>>)
    /\ HGET(tables, last.table, last.key) = Bulk(<<"\"", "\"">>)

(* C3 as stated: deleting an absent field, an absent composite entry or an
   absent table returns the count 0, without error, and leaves the store
   unchanged. *)
C3_Original ==
    [][/\ (Completes("deleteDataByTableAndKey") /\ HGET(tables, last'.table, last'.key) = Nil)
             => (last'.err = "" /\ last'.ret = Num(0) /\ UNCHANGED <<tables, entries>>)
       /\ (/\ Completes("deleteCompositeKeyByTableKeyPattern")
           /\ GET(entries, compositeKey(last'.table, last'.key)) = Nil)
             => (last'.err = "" /\ last'.ret = Num(0) /\ UNCHANGED <<tables, entries>>)
       /\ (Completes("deleteAllFromTable") /\ last'.table \notin DOMAIN tables)
             => (last'.err = "" /\ last'.ret = Num(0) /\ UNCHANGED <<tables, entries>>)]_vars

(* C3 amended: deleting an absent field or an absent composite entry returns
   the count 0; deleting an absent table returns no value (undefined); none
   of the three is an error and the store is left unchanged. *)
C3_Amended ==
    [][/\ (Completes("deleteDataByTableAndKey") /\ HGET(tables, last'.table, last'.key) = Nil)
             => (last'.err = "" /\ last'.ret = Num(0) /\ UNCHANGED <<tables, entries>>)
       /\ (/\ Completes("deleteCompositeKeyByTableKeyPattern")
           /\ GET(entries, compositeKey(last'.table, last'.key)) = Nil)
             => (last'.err = "" /\ last'.ret = Num(0) /\ UNCHANGED <<tables, entries>>)
       /\ (Completes("deleteAllFromTable") /\ last'.table \notin DOMAIN tables)
             => (last'.err = "" /\ last'.ret = Undefined /\ UNCHANGED <<tables, entries>>)]_vars

(* an absent field of an existing table was deleted: count 0 *)
C3_Witness ==
    /\ last.op = "deleteDataByTableAndKey"
    /\ last.ret = Num(0)
    /\ last.table \in DOMAIN tables
    /\ last.key \notin DOMAIN tables[last.table].fields

(* C4 as stated: getByTableAndKeyPattern reads the entry the composite
   writers write and the composite delete removes: after a write of an object
   it returns a value deep-equal to it, after the delete it returns null. *)
C4_Original ==
    /\ (last.op \in {"addOrUpdateCompositeKeyPatternNoExpiry",
                     "addOrUpdateCompositeKeyPatternWithExpiry"} /\ last.data.t = "object")
          => /\ getByTableAndKeyPattern(entries, last.table, last.key).err = ""
             /\ DeepEqual(getByTableAndKeyPattern(entries, last.table, last.key).ret, last.data)
    /\ last.op = "deleteCompositeKeyByTableKeyPattern"
          => getByTableAndKeyPattern(entries, last.table, last.key) = Return(Null)

(* C7: getAllFromTable returns the empty mapping for a table never written,
   and every step changes what it returns exactly as the step says: a field
   write sets that field to the written value (last write wins), a field
   delete removes that field (leaving the empty mapping when it was the last
   one), deleteAllFromTable leaves the empty mapping, anything else leaves
   the mapping as it was. *)
C7_GetAllReflects ==
    /\ \A t \in CrudTables : getAllFromTable(tables, t) = EmptyMapping
    /\ [][\A t \in CrudTables :
             \A before \in {getAllFromTable(tables, t).ret},
                after \in {getAllFromTable(tables', t)} :
                /\ after.err = ""
                /\ DeepEqual(after.ret,
                      CASE last'.table /= t -> before
                        [] last'.op = "addOrUpdateTableWithNoTableExpiry"
                              -> Obj(SetProp(before.o, last'.key, last'.data))
                        [] last'.op = "deleteDataByTableAndKey"
                              -> Obj(RemoveProp(before.o, last'.key))
                        [] last'.op = "deleteAllFromTable" -> Obj(<<>>)
                        [] OTHER -> before)]_vars

(* both fields of a table read back, one of them holding a falsy value *)
C7_Witness ==
    /\ last.op = "getAllFromTable"
    /\ DeepEqual(last.ret, Obj(<< <<<<"k">>, John>>, <<<<"j">>, Num(0)>> >>))

(***************************************************************************)
(* Properties of the TTL methods (SpecTtl, SpecFrame).                     *)
(***************************************************************************)
TtlSetters == {"setTableExpiry", "addOrUpdateTableWithTableExpiry"}

(* the step is a TTL method completing without error on a table that exists *)
SetsTtl(t) ==
    /\ \E op \in TtlSetters : Completes(op)
    /\ last'.err = ""
    /\ last'.table = t
    /\ t \in DOMAIN tables

Unreadable(tb, t) ==
    /\ getAllFromTable(tb, t) = EmptyMapping
    /\ \A k \in Keys : getByTableAndKey(tb, t, k) = Return(Null)

(* C5 as stated: after a TTL method completes on T every field of T stays
   readable until the deadline, and once ttl seconds have elapsed with no
   expire or persist on T in between, every field of T reads null and
   getAllFromTable(T) is the empty mapping.  (hist.deadline[T] is the
   deadline the last EXPIRE gave T, until a PERSIST clears it.) *)
C5_Original ==
    /\ [][\A t \in Tables :
             SetsTtl(t) => /\ t \in DOMAIN tables'
                           /\ tables'[t].fields = tables[t].fields]_vars
    /\ [][\A t \in Tables :
             (now' = now + 1 /\ hist.deadline[t] = now') => Unreadable(tables', t)]_vars

(* C5 amended: a TTL method that completes on an existing table T leaves
   every field of T in place and gives T the deadline now + ttl; as long as
   no expire, persist or delete removes or replaces it, T keeps that deadline
   and its fields while time passes; when the deadline is reached, every
   field of T reads null and getAllFromTable(T) is the empty mapping. *)
C5_Amended ==
    /\ [][\A t \in Tables :
             SetsTtl(t) => /\ t \in DOMAIN tables'
                           /\ tables'[t].fields = tables[t].fields
                           /\ tables'[t].exp = now + last'.ttl]_vars
    /\ [](\A t \in Tables :
             (hist.intact[t] /\ hist.deadline[t] > now)
                => (t \in DOMAIN tables /\ tables[t].exp = hist.deadline[t]))
    /\ [][\A t \in Tables :
             (now' = now + 1 /\ hist.intact[t] /\ hist.deadline[t] > now')
                => tables'[t] = tables[t]]_vars
    /\ [][\A t \in Tables :
             (now' = now + 1 /\ hist.intact[t] /\ hist.deadline[t] = now')
                => Unreadable(tables', t)]_vars

(* the deadline of a table that was not deleted has passed and the table is gone *)
C5_Witness ==
    \E t \in Tables :
       /\ hist.intact[t]
       /\ hist.deadline[t] > 0
       /\ now >= hist.deadline[t]
       /\ t \notin DOMAIN tables

(* C6: once removeTableExpiry has cleared a pending deadline of T, T and the
   fields it had stay present, without a deadline, through the original
   deadline and after it, until a delete removes them or a later TTL is set. *)
C6_ClearedTtlSurvives ==
    \A t \in Tables :
       hist.cleared[t] > 0
          => /\ t \in DOMAIN tables
             /\ tables[t].exp = 0
             /\ hist.clearedFields[t] \subseteq DOMAIN tables[t].fields
             /\ \A k \in hist.clearedFields[t] : getByTableAndKey(tables, t, k).err = ""

(* the original deadline has passed and the table is still there *)
C6_Witness ==
    \E t \in Tables :
       /\ hist.cleared[t] > 0
       /\ now >= hist.cleared[t]
       /\ t \in DOMAIN tables
       /\ hist.clearedFields[t] /= {}

(* C8: addOrUpdateTableWithTableExpiry is HSET, then EXPIRE.  (1) Once HSET is
   done the field holds the value and the table has the deadline it had
   before the call (none for a new table), and it stays so while nothing
   else touches the table, whether the call stops there or EXPIRE fails: a
   failing EXPIRE changes nothing.  (2) Other calls run between the two
   commands (the witness shows a read seeing the field without a deadline).
   (3) When EXPIRE completes and nothing touched the table in between, the
   table holds the field and the deadline now + ttl. *)
C8_WriteThenExpire ==
    /\ [][(wx.pc = "idle" /\ wx'.pc = "expire")
             => /\ HGET(tables', wx'.table, wx'.key) = Bulk(JSONstringify(wx'.data))
                /\ tables'[wx'.table].exp = IF wx'.table \in DOMAIN tables
                                            THEN tables[wx'.table].exp ELSE 0]_vars
    /\ []((wx.pc = "expire" /\ hist.quiet)
             => /\ HGET(tables, wx.table, wx.key) = Bulk(JSONstringify(wx.data))
                /\ tables[wx.table].exp = hist.expBefore)
    /\ [][(wx.pc = "expire" /\ wx'.pc = "idle" /\ last'.err /= "")
             => tables' = tables]_vars
    /\ [][(wx.pc = "expire" /\ wx'.pc = "idle" /\ last'.err = "" /\ hist.quiet)
             => /\ HGET(tables', wx.table, wx.key) = Bulk(JSONstringify(wx.data))
                /\ tables'[wx.table].exp = now + wx.ttl]_vars

(* EXPIRE failed after a read had seen the new field in a table without a
   deadline; the field is still there and the table still has no deadline *)
C8_Witness ==
    /\ last.op = "addOrUpdateTableWithTableExpiry"
    /\ last.err = "ConnectionError"
    /\ hist.seen
    /\ HGET(tables, last.table, last.key) = Bulk(JSONstringify(last.data))
    /\ tables[last.table].exp = 0

(* C10: addOrUpdateTableWithNoTableExpiry(T, K, V) sets field K of T and
   nothing else: T keeps the deadline it had (none for a new table), the
   other fields of T, the other tables and the flat entries are unchanged;
   a table whose deadline is reached disappears with all its fields. *)
C10_WriterFrame ==
    /\ [][Completes("addOrUpdateTableWithNoTableExpiry")
             => LET t == last'.table
                    k == last'.key
                IN /\ entries' = entries
                   /\ \A t2 \in Tables \ {t} :
                         /\ t2 \in DOMAIN tables' <=> t2 \in DOMAIN tables
                         /\ t2 \in DOMAIN tables => tables'[t2] = tables[t2]
                   /\ t \in DOMAIN tables'
                   /\ tables'[t].exp = IF t \in DOMAIN tables THEN tables[t].exp ELSE 0
                   /\ tables'[t].fields[k] = JSONstringify(last'.data)
                   /\ \A k2 \in Keys \ {k} :
                         IF t \in DOMAIN tables /\ k2 \in DOMAIN tables[t].fields
                         THEN /\ k2 \in DOMAIN tables'[t].fields
                              /\ tables'[t].fields[k2] = tables[t].fields[k2]
                         ELSE k2 \notin DOMAIN tables'[t].fields]_vars
    /\ [][\A t \in Tables :
             (now' = now + 1 /\ t \in DOMAIN tables /\ tables[t].exp = now')
                => Unreadable(tables', t)]_vars

(* a field was written into a table that already had a pending deadline *)
C10_Witness ==
    /\ last.op = "addOrUpdateTableWithNoTableExpiry"
    /\ last.table \in DOMAIN tables
    /\ tables[last.table].exp > now
    /\ Cardinality(DOMAIN tables[last.table].fields) = 2

(***************************************************************************)
(* Properties of the pattern scan (SpecScanQuiet, SpecScan).               *)
(***************************************************************************)
(* the part of a composite name after `table-` *)
Suffix(table, name) == Drop(name, Len(table) + 1)

(* the mapping the scan is expected to return: every entry whose name starts
   with `table-pattern`, keyed by the rest of its name after `table-`, with
   the value its writer was given *)
RECURSIVE ExpectedPairs(_, _, _)
ExpectedPairs(names, table, written) ==
    IF names = {} THEN <<>>
    ELSE LET name == CHOOSE x \in names : TRUE
         IN <<<<Suffix(table, name), written[name]>>>>
            \o ExpectedPairs(names \ {name}, table, written)

Expected(en, written, table, pattern) ==
    Obj(ExpectedPairs({name \in DOMAIN en : StartsWith(name, table \o <<"-">> \o pattern)},
                      table, written))

ScanBegins == sc.pc = "idle" /\ sc'.pc = "scan"

ScanScans == sc.pc = "scan" /\ sc' /= sc

ScanGets == sc.pc = "get" /\ sc' /= sc

ScanEnds == sc.pc /= "idle" /\ sc'.pc = "idle"

(* C2 as stated: over a store that is not modified during the call,
   getAllMatchingDataByPattern(table, pattern) returns exactly the entries
   whose names start with `table-pattern`, each keyed by its name without the
   leading `table-` and mapped to the value (string or object) that was
   written, whatever the batches of SCAN are. *)
C2_Original ==
    [][ScanEnds
          => /\ last'.err = ""
             /\ DeepEqual(last'.ret, Expected(entries, hist.written, sc.table, sc.pattern))]_vars

(* C9 amended: the call starts with cursor "0", passes to each SCAN the cursor
   the previous SCAN returned, scans again only after a cursor other than "0"
   and returns only after a SCAN returned "0": once "0" is returned the call
   only fetches the keys of that last batch, one per GET, and returns when
   they are used up; a GET that finds its key gone does not fail and adds
   nothing to the result (the key is in the result only if another report of
   it was fetched while it existed); a GET that finds its key sets the entry
   of that key to the decoded text the key holds at that moment and changes
   no other entry. *)
C9_Amended ==
    /\ [][ScanBegins => (sc'.cursor = <<"0">> /\ sc'.result = <<>>)]_vars
    /\ [][ScanScans
             => hist'.scanArg = IF hist.scanRet = <<>> THEN <<"0">> ELSE hist.scanRet]_vars
    /\ []((sc.pc = "scan" /\ hist.scanRet /= <<>>) => hist.scanRet /= <<"0">>)
    /\ [][(ScanEnds /\ last'.err = "") => hist'.scanRet = <<"0">>]_vars
    /\ [][(ScanGets /\ GET(entries, Head(sc.keys)).nil)
             => IF sc'.pc = "idle"
                THEN last'.err = "" /\ last'.ret = Obj(sc.result)
                ELSE sc'.result = sc.result]_vars
    /\ [][(ScanGets /\ ~GET(entries, Head(sc.keys)).nil)
             => LET key == Head(sc.keys)
                    held == JSONparse(entries[key].val).val
                    after == IF sc'.pc = "idle" THEN last'.ret.o ELSE sc'.result
                IN after = SetProp(sc.result, Suffix(sc.table, key), held)]_vars
    /\ []((sc.pc /= "idle" /\ hist.scanRet = <<"0">>) => (sc.pc = "get" /\ sc.keys /= <<>>))
    /\ [][(ScanGets /\ sc'.pc /= "idle") => sc'.keys = Tail(sc.keys)]_vars

(* C9 as stated: as above, and a key that was gone at its GET is absent from
   the result the call returns. *)
C9_Original ==
    [][(ScanEnds /\ last'.err = "")
          => \A key \in hist'.missed : ~HasProp(last'.ret.o, Suffix(sc.table, key))]_vars

(* a call returned a non-empty result after one of its GETs found the key gone *)
C9_Witness ==
    /\ last.op = "getAllMatchingDataByPattern"
    /\ last.err = ""
    /\ sc.pc = "idle"
    /\ hist.missed /= {}
    /\ last.ret.o /= <<>>

====
